---- MODULE Spec2Model ----
(***************************************************************************)
(* A model of the annotizer serializer: the accessor compiler              *)
(* (utils.construct_accessor), the schema merger and field compiler        *)
(* (Serializer._merge_bases, Serializer._construct_fields), the primed     *)
(* generators of utils (get_attr, apply_getters, apply_getters_many) and   *)
(* the engine instance (Serializer.__init__, Serializer.serialize).        *)
(*                                                                         *)
(* A Python str is a sequence of one-character strings, so that partition, *)
(* split and the underscore test are computed and not assumed.             *)
(***************************************************************************)
EXTENDS Integers, Sequences, FiniteSets, TLC

VARIABLES
    \* the accessor compiler: the field, whether disable_accessor lists it, the
    \* arguments of the running call, the path, the number of calls made
    caName, caDisabled, caAttr, caAcc, caPc, caPath, caCalls,
    \* schema compilation: the classes of cls.mro(), the merged fields.items(),
    \* the value of cls.__fields (or the exception of _construct_fields)
    mro, compPc, merged, parsed,
    \* the engine: cls.__fields of every schema class, the generators that have
    \* finished, the engine instance, the outcome of the last operation
    clsFields, deadGens, inst, last,
    \* two threads that evaluate instances of one schema class: where each thread is
    \* in the loop of apply_getters, and the shared generators that are executing
    thr, running,
    \* one send of a get_attr generator: the names of its path, the object the walk
    \* has reached, and what the walk has done so far
    ga,
    \* a caller of make_serializer: the fields and namespace mappings that it passes,
    \* the two mappings as the caller wrote them, and the outcome of its last call
    callerFields, callerNamespace, callerWrote, made

accVars == <<caName, caDisabled, caAttr, caAcc, caPc, caPath, caCalls>>

compVars == <<mro, compPc, merged, parsed>>

engVars == <<clsFields, deadGens, inst, last>>

thrVars == <<thr, running>>

gaVars == <<ga>>

facVars == <<callerFields, callerNamespace, callerWrote, made>>

vars == <<accVars, compVars, engVars, thrVars, gaVars, facVars>>

(***************************************************************************)
(* Bounds                                                                  *)
(***************************************************************************)
\* longest enumerated field name of the accessor compiler's inputs
MaxNameLen == 6

\* most annotations in the body of a schema class, and in the body of a mixin
MaxAnn == 2

MaxMixinAnn == 1

\* longest sequence held by an engine instance in many mode
MaxMany == 2

(***************************************************************************)
(* Strings                                                                 *)
(***************************************************************************)
Chars == {"a", "b", "_"}

Dunder == <<"_", "_">>

Dot == <<".">>

\* every string over Chars of length at most n
StringsUpTo(n) == UNION {[1..k -> Chars] : k \in 0..n}

\* "a__b__c" and "_a___c", the examples of construct_accessor's docstring
ExampleABC == <<"a", "_", "_", "b", "_", "_", "c">>

ExampleACPrivate == <<"_", "a", "_", "_", "_", "c">>

\* the field names the accessor compiler is run on
FieldNames == StringsUpTo(MaxNameLen) \cup {ExampleABC, ExampleACPrivate}

(***************************************************************************)
(* utils.construct_accessor                                                *)
(***************************************************************************)
\* a mutant of valid: it forgets the all-underscores test
validNonEmptyOnly(string) == string # <<>>

\* valid: string and not string == len(string) * "_"
valid(string) == string # <<>> /\ \E i \in 1..Len(string) : string[i] # "_"

\* start of the first "__" in s, 0 when there is none (str.partition scans from the left)
FindDunder(s) ==
    LET hits == {i \in 1..(Len(s) - 1) : s[i] = "_" /\ s[i + 1] = "_"}
    IN  IF hits = {} THEN 0 ELSE CHOOSE i \in hits : \A j \in hits : i <= j

\* attribute.partition("__"): <<before, dunder, after>>; no match gives <<s, "", "">>
partition(s) ==
    LET i == FindDunder(s)
    IN  IF i = 0
        THEN <<s, <<>>, <<>>>>
        ELSE <<SubSeq(s, 1, i - 1), Dunder, SubSeq(s, i + 2, Len(s))>>

\* one call of construct_accessor(attribute, accessor): either the arguments of the
\* recursive call it makes, or the string it returns
construct_accessor_call(attribute, accessor) ==
    LET p == partition(attribute)
        before == p[1]
        dunder == p[2]
        after == p[3]
    IN  IF valid(before) /\ valid(after)
        THEN [recurse |-> TRUE, attribute |-> after, accessor |-> accessor \o before \o Dot]
        ELSE IF valid(after)
        THEN [recurse |-> TRUE, attribute |-> after, accessor |-> accessor \o before \o dunder]
        ELSE [recurse |-> FALSE, attribute |-> <<>>,
              accessor |-> accessor \o before \o dunder \o after]

RECURSIVE construct_accessor(_, _)
construct_accessor(attribute, accessor) ==
    LET c == construct_accessor_call(attribute, accessor)
    IN  IF c.recurse THEN construct_accessor(c.attribute, c.accessor) ELSE c.accessor

\* _construct_fields: getter_name = field_name if field_name in disable_accessor
\*                                  else construct_accessor(field_name)
getter_name(field_name, disabled) ==
    IF disabled THEN field_name ELSE construct_accessor(field_name, <<>>)

\* attributes.split("."): the segments between the dots
RECURSIVE split(_)
split(s) ==
    LET dots == {i \in 1..Len(s) : s[i] = "."}
    IN  IF dots = {}
        THEN <<s>>
        ELSE LET i == CHOOSE d \in dots : \A e \in dots : d <= e
             IN  <<SubSeq(s, 1, i - 1)>> \o split(SubSeq(s, i + 1, Len(s)))

(***************************************************************************)
(* Python values.  Every value is a record with a kind k; the other fields *)
(* depend on the kind.                                                     *)
(***************************************************************************)
NoneVal == [k |-> "none"]

\* the one instance of utils.HasNoAttribute
has_no_attribute == [k |-> "marker"]

Ellipsis == [k |-> "ellipsis"]

IntVal(n) == [k |-> "int", v |-> n]

StrVal(chars) == [k |-> "str", s |-> chars]

\* a function or a type used as a one-argument callable (int, str, a lambda)
Func(f) == [k |-> "function", f |-> f]

\* the __doc__ of a type, kept opaque
DocOf(type) == [k |-> "docstring", of |-> type]

ListVal(elems) == [k |-> "list", elems |-> elems]

\* a dict in insertion order: a sequence of <<key, value>> with distinct keys
DictVal(items) == [k |-> "dict", items |-> items]

\* an instance of a user class; tuple = TRUE when the class is a tuple subclass
\* (a namedtuple), whose elements are then elems
Object(attrs) == [k |-> "object", tuple |-> FALSE, elems |-> <<>>, attrs |-> attrs]

\* an attribute that is a property whose getter raises ValueError
Raises == [k |-> "raises"]

\* member names of the source that the model looks up
nSettings == <<"S", "e", "t", "t", "i", "n", "g", "s">>

nSerialize == <<"s", "e", "r", "i", "a", "l", "i", "z", "e">>

nGetFields == <<"g", "e", "t", "_", "f", "i", "e", "l", "d", "s">>

nInstance == <<"_", "i", "n", "s", "t", "a", "n", "c", "e">>

nDoc == <<"_", "_", "d", "o", "c", "_", "_">>

\* FIELDS, the name that cls.__fields has in the __dict__ of a compiled class
nFields ==
    <<"_", "S", "e", "r", "i", "a", "l", "i", "z", "e", "r", "_", "_", "f", "i", "e", "l", "d", "s">>

\* what the attributes of a value are, among the names the model uses: an instance's own
\* attributes; HasNoAttribute()._instance is the singleton itself and its __doc__ is
\* the class docstring; NoneType.__doc__ is None
AttrsOf(obj) ==
    CASE obj.k = "object" -> obj.attrs
      [] obj.k = "marker" -> (nInstance :> has_no_attribute) @@ (nDoc :> DocOf("HasNoAttribute"))
      [] obj.k = "none" -> (nDoc :> NoneVal)
      [] OTHER -> (nDoc :> DocOf(obj.k))

Ok(val) == [ok |-> TRUE, val |-> val, exc |-> ""]

Exc(name) == [ok |-> FALSE, val |-> NoneVal, exc |-> name]

\* getattr(obj, attr): AttributeError when absent; a raising property raises
getattr(obj, attr) ==
    IF attr \notin DOMAIN AttrsOf(obj)
    THEN Exc("AttributeError")
    ELSE IF AttrsOf(obj)[attr].k = "raises"
    THEN Exc("ValueError")
    ELSE Ok(AttrsOf(obj)[attr])

\* getattr(obj, attr, default): only AttributeError is replaced by the default
getattr_default(obj, attr, default) ==
    IF getattr(obj, attr).exc = "AttributeError" THEN Ok(default) ELSE getattr(obj, attr)

(***************************************************************************)
(* Serializer._merge_bases.  A class is [name, ann, ns]: ann its own        *)
(* __annotations__ in declaration order (a sequence of <<name, specifier>>),*)
(* ns its __dict__ (a function from names).  bases is cls.mro() without    *)
(* object.  (getattr(base, "__annotations__", {}) gives a class's own      *)
(* annotations, as on Python 3.10 and later.)                              *)
(***************************************************************************)
\* the keys of one annotations dict, in order
Keys(ann) == [i \in 1..Len(ann) |-> ann[i][1]]

HasKey(ann, key) == \E i \in 1..Len(ann) : ann[i][1] = key

Lookup(ann, key) == ann[CHOOSE i \in 1..Len(ann) : ann[i][1] = key][2]

\* chain.from_iterable(self.maps): every key of every map, in map order
RECURSIVE chain_from_iterable(_)
chain_from_iterable(maps) ==
    IF maps = <<>> THEN <<>> ELSE Keys(Head(maps)) \o chain_from_iterable(Tail(maps))

\* dict.fromkeys(keys): the keys in order of first appearance
RECURSIVE dict_fromkeys(_)
dict_fromkeys(keys) ==
    IF keys = <<>>
    THEN <<>>
    ELSE LET front == dict_fromkeys(SubSeq(keys, 1, Len(keys) - 1))
             key == keys[Len(keys)]
         IN  IF \E i \in 1..Len(front) : front[i] = key THEN front ELSE Append(front, key)

\* a mutant of the iteration: collections.ChainMap.__iter__, which updates a dict with
\* the maps from the last to the first, so the least derived class comes first
RECURSIVE reversed(_)
reversed(seq) == IF seq = <<>> THEN <<>> ELSE Append(reversed(Tail(seq)), Head(seq))

ChainMap_iter(maps) == dict_fromkeys(chain_from_iterable(reversed(maps)))

\* AnnotationsChainMap.__iter__
AnnotationsChainMap_iter(maps) == dict_fromkeys(chain_from_iterable(maps))

\* ChainMap.__getitem__ on the annotations: the first map that has the key
AnnotationsChainMap_getitem(maps, key) ==
    Lookup(maps[CHOOSE i \in 1..Len(maps) :
                    HasKey(maps[i], key) /\ \A j \in 1..(i - 1) : ~HasKey(maps[j], key)], key)

\* fields.items(): each key of __iter__ with its __getitem__
AnnotationsChainMap_items(maps) ==
    LET keys == AnnotationsChainMap_iter(maps)
    IN  [i \in 1..Len(keys) |-> <<keys[i], AnnotationsChainMap_getitem(maps, keys[i])>>]

\* namespace.get(key, default) on the ChainMap of the __dict__s
ChainMap_get(maps, key, default) ==
    IF \A i \in 1..Len(maps) : key \notin DOMAIN maps[i]
    THEN default
    ELSE maps[CHOOSE i \in 1..Len(maps) :
                  key \in DOMAIN maps[i] /\ \A j \in 1..(i - 1) : key \notin DOMAIN maps[j]][key]

_merge_bases(bases) ==
    <<[i \in 1..Len(bases) |-> bases[i].ann], [i \in 1..Len(bases) |-> bases[i].ns]>>


(***************************************************************************)
(* Serializer._construct_fields.  A compiled field is                      *)
(* [name, alias, getter, callable_]; a generator made at compile time is   *)
(* named <<class, field, role>>, and lives as long as the class.           *)
(***************************************************************************)
\* attrgetter(getter_name)
attrgetter(path) == [k |-> "attrgetter", names |-> split(path)]

\* get_attr(getter_name): the send of a primed generator; names = attributes.split(".")
get_attr(path, gen) == [k |-> "get_attr", names |-> split(path), gen |-> gen]

\* apply_getters(fields): the send of a primed generator
apply_getters(fields, gen) == [k |-> "apply_getters", fields |-> fields, gen |-> gen]

\* apply_getters_many(fields): the send of a primed generator that holds an
\* apply_getters generator of its own
apply_getters_many(fields, gen) == [k |-> "apply_getters_many", fields |-> fields, gen |-> gen]

\* namespace[callable_].__get__(cls): a function bound to the class
bound_method(function) == [k |-> "method", f |-> function.f]

\* getattr(settings, attr, set()) for settings = namespace.get("Settings")
settings_get(namespace, attr) ==
    LET settings == ChainMap_get(namespace, nSettings, NoneVal)
    IN  IF settings.k = "class" THEN settings[attr] ELSE {}

\* getter = get_attr(getter_name) if field_name in optional_fields
\*          else attrgetter(getter_name)
choose_getter(cls, field_name, path, optional_fields) ==
    IF field_name \in optional_fields
    THEN get_attr(path, <<cls, field_name, "getter">>)
    ELSE attrgetter(path)

\* parsed_fields[field_name] = (field_alias, getter, callable_)
parsed_field(field_name, field_alias, getter, callable_) ==
    [ok |-> TRUE, exc |-> "",
     field |-> [name |-> field_name, alias |-> field_alias, getter |-> getter,
                callable_ |-> callable_]]

\* raise MethodError(...), raise FieldError(...)
field_error(exc) == [ok |-> FALSE, exc |-> exc, field |-> NoneVal]

\* the getter of the property get_fields called with the class: getattr(cls, FIELDS)
\* finds the compiled fields of the nearest compiled class of the mro, fields being
\* namespace.get(FIELDS), or raises AttributeError, which becomes MethodError
fget_get_fields(field_name, field_alias, fields) ==
    IF fields.k = "fields"
    THEN parsed_field(field_name, field_alias, fields, NoneVal)
    ELSE field_error("MethodError")

\* namespace[callable_].__get__(cls) for a str callable_, found being
\* namespace.get(callable_): a function is bound to the class and is the getter; a
\* property calls its getter with the class, and what get_fields returns is the
\* getter, while serialize raises AttributeError (a class has no _serialized_data);
\* a missing name (KeyError) and a value without __get__ (AttributeError) give
\* MethodError
method_getter(field_name, field_alias, found, namespace) ==
    CASE found.k = "function" ->
            parsed_field(field_name, field_alias, bound_method(found), NoneVal)
      [] found.k = "property" /\ found.fget = "get_fields" ->
            fget_get_fields(field_name, field_alias, ChainMap_get(namespace, nFields, NoneVal))
      [] OTHER -> field_error("MethodError")

\* the cases of callable_, for the alias and the getter of the field
parse_callable(cls, field_name, callable_, namespace, field_alias, getter) ==
    CASE callable_.k = "ellipsis" -> parsed_field(field_name, field_alias, getter, NoneVal)
      [] callable_.k = "instance" ->
            parsed_field(field_name, field_alias, getter,
                         IF callable_.many
                         THEN apply_getters_many(callable_.fields,
                                                 <<cls, field_name, "callable">>)
                         ELSE apply_getters(callable_.fields, <<cls, field_name, "callable">>))
      [] callable_.k = "type" ->
            parsed_field(field_name, field_alias, getter,
                         apply_getters(callable_.fields, <<cls, field_name, "callable">>))
      [] callable_.k = "str" ->
            method_getter(field_name, field_alias,
                          ChainMap_get(namespace, callable_.s, NoneVal), namespace)
      [] callable_.k = "function" -> parsed_field(field_name, field_alias, getter, callable_)
      [] OTHER -> field_error("FieldError")

\* the body of the loop of _construct_fields for one item of fields.items()
construct_field(cls, field_name, callable_, namespace) ==
    parse_callable(cls, field_name, callable_, namespace,
                   ChainMap_get(namespace, field_name, StrVal(field_name)),
                   choose_getter(cls, field_name,
                                 getter_name(field_name,
                                             field_name \in settings_get(namespace,
                                                                         "disable_accessor")),
                                 settings_get(namespace, "optional")))

RECURSIVE construct_fields_from(_, _, _, _, _)
RECURSIVE after_field(_, _, _, _, _, _)

\* the loop of _construct_fields from the i-th item of fields.items()
construct_fields_from(cls, items, namespace, i, parsed_fields) ==
    IF i > Len(items)
    THEN [ok |-> TRUE, exc |-> "", fields |-> parsed_fields]
    ELSE after_field(cls, items, namespace, i, parsed_fields,
                     construct_field(cls, items[i][1], items[i][2], namespace))

\* the loop after the body for the i-th item, whose outcome is r
after_field(cls, items, namespace, i, parsed_fields, r) ==
    IF r.ok
    THEN construct_fields_from(cls, items, namespace, i + 1, Append(parsed_fields, r.field))
    ELSE [ok |-> FALSE, exc |-> r.exc, fields |-> <<>>]

\* _construct_fields(fields, namespace): the parsed fields in the order of
\* fields.items(), or the MethodError or FieldError of the first bad field
_construct_fields(cls, fields, namespace) ==
    construct_fields_from(cls, AnnotationsChainMap_items(fields), namespace, 1, <<>>)

\* __init_subclass__: cls.__fields = cls._construct_fields(*cls._merge_bases())
init_subclass(cls, bases) ==
    _construct_fields(cls, _merge_bases(bases)[1], _merge_bases(bases)[2])

\* cls.__fields = ..., r being the outcome of _construct_fields: the __dict__ of the
\* class holds the compiled fields; an exception leaves the class without them
set_fields(class, r) ==
    IF r.ok
    THEN [class EXCEPT !.ns = (nFields :> [k |-> "fields", items |-> r.fields]) @@ @]
    ELSE class

\* the __dict__ of Serializer itself, among the names the model uses
SerializerClass ==
    [name |-> "Serializer", ann |-> <<>>,
     ns |-> (nSerialize :> [k |-> "property", fget |-> "serialize"])
            @@ (nGetFields :> [k |-> "property", fget |-> "get_fields"])]

(***************************************************************************)
(* Evaluation.  dead is the set of generators that an exception has        *)
(* passed through: a generator that raised is finished, and its send       *)
(* raises StopIteration from then on.  A result is                         *)
(* [ok, val, exc, dead, calls]: the value or the exception, the finished   *)
(* generators afterwards, and how many accessors and transforms ran.       *)
(***************************************************************************)
Done(val, dead, calls) == [ok |-> TRUE, val |-> val, exc |-> "", dead |-> dead, calls |-> calls]

Raised(exc, dead, calls) ==
    [ok |-> FALSE, val |-> NoneVal, exc |-> exc, dead |-> dead, calls |-> calls]

\* attrgetter("a.b")(obj): the attributes one after the other, any failure raised
RECURSIVE resolve_strict(_, _)
resolve_strict(obj, names) ==
    IF names = <<>>
    THEN Ok(obj)
    ELSE LET r == getattr(obj, Head(names))
         IN  IF r.ok THEN resolve_strict(r.val, Tail(names)) ELSE r

\* get_attr: for attr in names: obj = getattr_(obj, attr, has_no_attribute)
\* (with one name, the single getattr_ of the first branch, which is the same walk)
RECURSIVE resolve_tolerant(_, _)
resolve_tolerant(obj, names) ==
    IF names = <<>>
    THEN Ok(obj)
    ELSE LET r == getattr_default(obj, Head(names), has_no_attribute)
         IN  IF r.ok THEN resolve_tolerant(r.val, Tail(names)) ELSE r

\* the method get_i of the documentation: def get_i(self, obj): return obj.a + 20
method_call(f, obj) ==
    LET r == getattr(obj, <<"a">>)
    IN  IF ~r.ok THEN r
        ELSE IF r.val.k = "int" THEN Ok(IntVal(r.val.v + 20)) ELSE Exc("TypeError")

\* the return or the exception of a call: one accessor or transform has run, and the
\* generators in finished have finished if it raised
returned_or_raised(r, dead, finished) ==
    IF r.ok THEN Done(r.val, dead, 1) ELSE Raised(r.exc, dead \cup finished, 1)

\* value = getter(object_)
call_getter(getter, obj, dead) ==
    CASE getter.k = "attrgetter" ->
            returned_or_raised(resolve_strict(obj, getter.names), dead, {})
      [] getter.k = "get_attr" ->
            IF getter.gen \in dead
            THEN Raised("StopIteration", dead, 0)
            ELSE returned_or_raised(resolve_tolerant(obj, getter.names), dead, {getter.gen})
      [] getter.k = "method" ->
            returned_or_raised(method_call(getter.f, obj), dead, {})
      [] getter.k = "fields" -> Raised("TypeError", dead, 0)

\* the callables of the schemas of the model: lambda num: num + 10
function_call(f, value) ==
    IF value.k = "int" THEN Ok(IntVal(value.v + 10)) ELSE Exc("TypeError")

\* what iterating a value gives: the elements of a list or of a tuple, the
\* characters of a str, the keys of a dict; TypeError for a value that is not iterable
iterate(value) ==
    CASE value.k = "list" -> Ok(value.elems)
      [] value.k = "object" /\ value.tuple -> Ok(value.elems)
      [] value.k = "str" -> Ok([i \in 1..Len(value.s) |-> StrVal(<<value.s[i]>>)])
      [] value.k = "dict" -> Ok([i \in 1..Len(value.items) |-> value.items[i][1]])
      [] OTHER -> Exc("TypeError")

\* ser[field_alias] = value: a new key is appended, a known key keeps its place
setitem(ser, key, value) ==
    IF \E i \in 1..Len(ser) : ser[i][1] = key
    THEN [i \in 1..Len(ser) |-> IF ser[i][1] = key THEN <<key, value>> ELSE ser[i]]
    ELSE Append(ser, <<key, value>>)

\* a StopIteration that leaves the body of a generator is turned into RuntimeError
leaving_generator(exc) == IF exc = "StopIteration" THEN "RuntimeError" ELSE exc

\* an exception that leaves a generator of the class finishes it
finishing(r, gen) == IF r.ok THEN r ELSE Raised(r.exc, r.dead \cup {gen}, r.calls)

RECURSIVE apply_fields_from(_, _, _, _, _, _)
RECURSIVE after_getter(_, _, _, _, _, _)
RECURSIVE after_callable(_, _, _, _, _, _)
RECURSIVE apply_each(_, _, _, _, _, _)
RECURSIVE after_each(_, _, _, _, _, _)
RECURSIVE call_callable(_, _, _)

\* the loop of apply_getters over fields[i..] for one object_, ser built so far
apply_fields_from(fields, i, object_, ser, dead, calls) ==
    IF i > Len(fields)
    THEN Done(DictVal(ser), dead, calls)
    ELSE after_getter(fields, i, object_, ser, calls,
                      call_getter(fields[i].getter, object_, dead))

\* the body of the loop after value = getter(object_), whose outcome is g
after_getter(fields, i, object_, ser, calls, g) ==
    IF ~g.ok
    THEN Raised(leaving_generator(g.exc), g.dead, calls + g.calls)
    ELSE IF g.val = has_no_attribute
    THEN apply_fields_from(fields, i + 1, object_, ser, g.dead, calls + g.calls)
    ELSE IF fields[i].callable_ = NoneVal
    THEN apply_fields_from(fields, i + 1, object_, setitem(ser, fields[i].alias, g.val),
                           g.dead, calls + g.calls)
    ELSE after_callable(fields, i, object_, ser, calls + g.calls,
                        call_callable(fields[i].callable_, g.val, g.dead))

\* ser[field_alias] = callable_(value), the outcome of callable_(value) being c
after_callable(fields, i, object_, ser, calls, c) ==
    IF ~c.ok
    THEN Raised(leaving_generator(c.exc), c.dead, calls + c.calls)
    ELSE apply_fields_from(fields, i + 1, object_, setitem(ser, fields[i].alias, c.val),
                           c.dead, calls + c.calls)

\* [getter(obj) for obj in objects], from objects[i], out built so far
apply_each(fields, objects, i, out, dead, calls) ==
    IF i > Len(objects)
    THEN Done(ListVal(out), dead, calls)
    ELSE after_each(fields, objects, i, out, calls,
                    apply_fields_from(fields, 1, objects[i], <<>>, dead, 0))

\* the comprehension after getter(obj) for objects[i], whose outcome is r
after_each(fields, objects, i, out, calls, r) ==
    IF ~r.ok
    THEN Raised(r.exc, r.dead, calls + r.calls)
    ELSE apply_each(fields, objects, i + 1, Append(out, r.val), r.dead, calls + r.calls)

\* ser[field_alias] = callable_(value): a function, or the send of the generator
\* that _construct_fields made for a nested schema
call_callable(callable_, value, dead) ==
    CASE callable_.k = "function" ->
            returned_or_raised(function_call(callable_.f, value), dead, {})
      [] callable_.k = "apply_getters" ->
            IF callable_.gen \in dead
            THEN Raised("StopIteration", dead, 0)
            ELSE finishing(apply_fields_from(callable_.fields, 1, value, <<>>, dead, 1),
                           callable_.gen)
      [] callable_.k = "apply_getters_many" ->
            IF callable_.gen \in dead
            THEN Raised("StopIteration", dead, 0)
            ELSE IF ~iterate(value).ok
            THEN Raised("TypeError", dead \cup {callable_.gen}, 1)
            ELSE finishing(apply_each(callable_.fields, iterate(value).val, 1, <<>>, dead,
                                      1),
                           callable_.gen)

\* getter = apply_getters(self._fields); getter(object_): a generator of this call alone
apply_once(fields, object_, dead) == apply_fields_from(fields, 1, object_, <<>>, dead, 0)

(***************************************************************************)
(* json.dumps(data, default=getter) with the default options.  The text is *)
(* a sequence of tokens.  default is called for a value the encoder cannot *)
(* encode itself, and the encoder goes on with what it returns.            *)
(***************************************************************************)
Tok(t) == [t |-> t]

Digit(d) == <<"0", "1", "2", "3", "4", "5", "6", "7", "8", "9">>[d + 1]

\* str(n) for an int
RECURSIVE int_str(_)
int_str(n) ==
    IF n < 0 THEN <<"-">> \o int_str(0 - n)
    ELSE IF n < 10 THEN <<Digit(n)>>
    ELSE int_str(n \div 10) \o <<Digit(n % 10)>>

\* the encoder encodes these itself: None, int, str, list, dict, and a tuple
\* (so an instance of a namedtuple class)
native(o) ==
    \/ o.k \in {"none", "int", "str", "docstring", "list", "dict"}
    \/ o.k = "object" /\ o.tuple

\* a dict key: a str as it is, an int as its digits, None as null;
\* any other key is a TypeError
key_token(key) ==
    CASE key.k = "str" -> Ok([t |-> "string", s |-> key.s])
      [] key.k = "int" -> Ok([t |-> "string", s |-> int_str(key.v)])
      [] key.k = "none" -> Ok([t |-> "string", s |-> <<"n", "u", "l", "l">>])
      [] OTHER -> Exc("TypeError")

RECURSIVE encode(_, _, _, _)
RECURSIVE encode_default(_, _, _)
RECURSIVE encode_elems(_, _, _, _, _, _)
RECURSIVE after_elem(_, _, _, _, _)
RECURSIVE encode_items(_, _, _, _, _, _)
RECURSIVE after_item(_, _, _, _, _, _, _, _)

\* the encoding of o: o = default(o) for a value that the encoder cannot encode
encode(o, fields, dead, calls) ==
    IF ~native(o)
    THEN encode_default(apply_once(fields, o, dead), fields, calls)
    ELSE CASE o.k = "none" -> Done(<<Tok("null")>>, dead, calls)
           [] o.k = "int" -> Done(<<[t |-> "number", v |-> o.v]>>, dead, calls)
           [] o.k = "str" -> Done(<<[t |-> "string", s |-> o.s]>>, dead, calls)
           [] o.k = "docstring" -> Done(<<[t |-> "string", doc |-> o.of]>>, dead, calls)
           [] o.k = "list" -> encode_elems(o.elems, 1, <<Tok("[")>>, fields, dead, calls)
           [] o.k = "dict" -> encode_items(o.items, 1, <<Tok("{")>>, fields, dead, calls)
           [] o.k = "object" -> encode_elems(o.elems, 1, <<Tok("[")>>, fields, dead, calls)

\* the encoder goes on with what default(o) returned, the outcome of default(o) being r
encode_default(r, fields, calls) ==
    IF r.ok
    THEN encode(r.val, fields, r.dead, calls + r.calls)
    ELSE Raised(r.exc, r.dead, calls + r.calls)

encode_elems(elems, i, out, fields, dead, calls) ==
    IF i > Len(elems)
    THEN Done(Append(out, Tok("]")), dead, calls)
    ELSE after_elem(elems, i, out, fields, encode(elems[i], fields, dead, calls))

\* the array after the encoding of elems[i], whose outcome is r
after_elem(elems, i, out, fields, r) ==
    IF ~r.ok THEN r
    ELSE encode_elems(elems, i + 1,
                      (IF i > 1 THEN Append(out, Tok(",")) ELSE out) \o r.val,
                      fields, r.dead, r.calls)

encode_items(items, i, out, fields, dead, calls) ==
    IF i > Len(items)
    THEN Done(Append(out, Tok("}")), dead, calls)
    ELSE after_item(items, i, out, fields, dead, calls, key_token(items[i][1]),
                    encode(items[i][2], fields, dead, calls))

\* the object after its i-th key, whose token is key, and the encoding of its i-th
\* value, whose outcome is r: a bad key raises before the value is encoded
after_item(items, i, out, fields, dead, calls, key, r) ==
    IF ~key.ok THEN Raised(key.exc, dead, calls)
    ELSE IF ~r.ok THEN r
    ELSE encode_items(items, i + 1,
                      (IF i > 1 THEN Append(out, Tok(",")) ELSE out)
                          \o <<key.val, Tok(":")>> \o r.val,
                      fields, r.dead, r.calls)

\* the text as a str value
json_text(r) == IF r.ok THEN Done([k |-> "json", tokens |-> r.val], r.dead, r.calls) ELSE r

\* dumps(self.data, default=getter)
dumps(data, fields, dead) == json_text(encode(data, fields, dead, 0))

(***************************************************************************)
(* The engine instance: Serializer.__init__ and Serializer.serialize       *)
(***************************************************************************)
NoInstance ==
    [live |-> FALSE, cls |-> "", data |-> NoneVal, many |-> FALSE, to_json |-> FALSE,
     fields |-> <<>>, stored |-> NoneVal]

\* the outcome of an operation; req holds the class and the fields argument of a
\* constructor call
NoOperation ==
    [op |-> "none", ok |-> TRUE, val |-> NoneVal, exc |-> "", calls |-> 0,
     recomputed |-> FALSE, req |-> NoneVal]

\* no field is being compiled to a path
AccIdle ==
    /\ caName = <<>>
    /\ caDisabled = FALSE
    /\ caPc = "idle"
    /\ caAttr = <<>>
    /\ caAcc = <<>>
    /\ caPath = <<>>
    /\ caCalls = 0

\* no class is being defined
CompIdle ==
    /\ mro = <<>>
    /\ compPc = "idle"
    /\ merged = <<>>
    /\ parsed = [ok |-> TRUE, exc |-> "", fields |-> <<>>]

\* no schema class exists
EngIdle ==
    /\ clsFields = <<>>
    /\ deadGens = {}
    /\ inst = NoInstance
    /\ last = NoOperation

Threads == {"t1", "t2"}

\* no thread evaluates anything
ThrIdle ==
    /\ thr = [t \in Threads |-> [pc |-> "idle"]]
    /\ running = {}

\* no get_attr generator is being sent to
GaIdle == ga = [pc |-> "idle"]

\* nobody calls make_serializer
FacIdle ==
    /\ callerFields = <<>>
    /\ callerNamespace = <<>>
    /\ callerWrote = <<>>
    /\ made = [op |-> "none"]

\* a mutant of the truth test: only "nothing stored yet" counts as not computed
is_not_none(value) == value # NoneVal

\* if self._serialized_data: the truth value of None, a dict, a list, a str
truthy(value) ==
    CASE value.k = "none" -> FALSE
      [] value.k = "dict" -> value.items # <<>>
      [] value.k = "list" -> value.elems # <<>>
      [] value.k = "json" -> value.tokens # <<>>
      [] OTHER -> TRUE

\* set(fields) - self.get_fields.keys()
unknown_fields(parsed_fields, fields) ==
    {fields[i] : i \in 1..Len(fields)} \
        {parsed_fields[j].name : j \in 1..Len(parsed_fields)}

\* a mutant of the selection: the schema's fields, whatever was requested
select_all(parsed_fields, fields) == parsed_fields

\* [field for getter_name, field in self.get_fields.items() if getter_name in fields]
RECURSIVE select_fields(_, _)
select_fields(parsed_fields, fields) ==
    IF parsed_fields = <<>>
    THEN <<>>
    ELSE (IF \E i \in 1..Len(fields) : fields[i] = Head(parsed_fields).name
          THEN <<Head(parsed_fields)>> ELSE <<>>)
         \o select_fields(Tail(parsed_fields), fields)

\* Serializer.__init__: the instance, or FieldError.  fields is [given, names]:
\* given = FALSE stands for fields=None
serializer_init(parsed_fields, cls, data, fields, many, to_json) ==
    IF fields.given /\ unknown_fields(parsed_fields, fields.names) # {}
    THEN [ok |-> FALSE, exc |-> "FieldError", self |-> NoInstance]
    ELSE [ok |-> TRUE, exc |-> "",
          self |-> [live |-> TRUE, cls |-> cls, data |-> data, many |-> many,
                    to_json |-> to_json,
                    fields |-> IF fields.given
                               THEN select_fields(parsed_fields, fields.names)
                               ELSE parsed_fields,
                    stored |-> NoneVal]]

\* a mutant of the map: the first element is consumed and gives no result
map_getter_after_first(fields, data, dead) ==
    IF iterate(data).ok
    THEN apply_each(fields, iterate(data).val, 2, <<>>, dead, 0)
    ELSE Raised("TypeError", dead, 0)

\* list(map(getter, self.data))
map_getter(fields, data, dead) ==
    IF iterate(data).ok
    THEN apply_each(fields, iterate(data).val, 1, <<>>, dead, 0)
    ELSE Raised("TypeError", dead, 0)

\* the part of serialize after the test of self._serialized_data
compute(self, dead) ==
    IF self.to_json THEN dumps(self.data, self.fields, dead)
    ELSE IF self.many THEN map_getter(self.fields, self.data, dead)
    ELSE apply_once(self.fields, self.data, dead)

\* self._serialized_data = ...; return self._serialized_data, the outcome of the
\* computation being r: an exception leaves what is stored as it is
store(self, r) ==
    [result |-> r, stored |-> IF r.ok THEN r.val ELSE self.stored, recomputed |-> TRUE]

\* Serializer.serialize: [result, stored afterwards, recomputed]
serialize(self, dead) ==
    IF truthy(self.stored)
    THEN [result |-> Done(self.stored, dead, 0), stored |-> self.stored,
          recomputed |-> FALSE]
    ELSE store(self, compute(self, dead))

(***************************************************************************)
(* The schema classes of the engine and the objects they are run on        *)
(***************************************************************************)
EmptyNs == [x \in {} |-> NoneVal]

fA == <<"a">>

fB == <<"b">>

fN == <<"n">>

fD == <<"d">>

fC == <<"c">>

fE == <<"e">>

fL == <<"l">>

fCD == <<"c", "_", "_", "d">>

fCDoc == <<"c", "_", "_", "_", "_", "d", "o", "c", "_", "_">>

fUnknown == <<"z">>

Settings(optional, disable_accessor) ==
    nSettings :> [k |-> "class", optional |-> optional, disable_accessor |-> disable_accessor]

\* class Inner(Serializer): n: ...
InnerClass == [name |-> "Inner", ann |-> <<<<fN, Ellipsis>>>>, ns |-> EmptyNs]

InnerFields == init_subclass("Inner", <<InnerClass, SerializerClass>>).fields

\* class Flat(Serializer): a: ...; b: ...; c__d: ...; c____doc__: ...
\*     class Settings: optional = ("b", "c__d", "c____doc__")
FlatClass ==
    [name |-> "Flat",
     ann |-> <<<<fA, Ellipsis>>, <<fB, Ellipsis>>, <<fCD, Ellipsis>>, <<fCDoc, Ellipsis>>>>,
     ns |-> Settings({fB, fCD, fCDoc}, {})]

\* class Outer(Serializer): a: lambda num: num + 10 = "x"; e: Inner; l: Inner(many=True)
\*     class Settings: optional = ("l",)
OuterClass ==
    [name |-> "Outer",
     ann |-> <<<<fA, Func("plus10")>>,
               <<fE, [k |-> "type", fields |-> InnerFields]>>,
               <<fL, [k |-> "instance", many |-> TRUE, fields |-> InnerFields]>>>>,
     ns |-> (fA :> StrVal(<<"x">>)) @@ Settings({fL}, {})]

CompiledClasses ==
    ("Inner" :> InnerFields)
    @@ ("Flat" :> init_subclass("Flat", <<FlatClass, SerializerClass>>).fields)
    @@ ("Outer" :> init_subclass("Outer", <<OuterClass, SerializerClass>>).fields)

\* an instance of a plain class: its attributes and the class's __doc__ of None
Plain(attrs) == Object(attrs @@ (nDoc :> NoneVal))

\* an instance of namedtuple("NT", "a b")
NamedTuple(a, b) ==
    [k |-> "object", tuple |-> TRUE, elems |-> <<a, b>>,
     attrs |-> (fA :> a) @@ (fB :> b) @@ (nDoc :> DocOf("NT"))]

OFull == Plain((fA :> IntVal(1)) @@ (fB :> IntVal(2)) @@ (fC :> Plain(fD :> IntVal(3))))

OMin == Plain(fA :> IntVal(1))

ONoB == Plain(fC :> IntVal(0))

ONone == Plain((fA :> NoneVal) @@ (fC :> NoneVal))

ORaises == Plain((fA :> IntVal(1)) @@ (fB :> Raises))

ONamedTuple == NamedTuple(IntVal(1), IntVal(2))

PGood == Plain((fA :> IntVal(1)) @@ (fE :> Plain(fN :> IntVal(5))))

PNoN == Plain((fA :> IntVal(1)) @@ (fE :> Plain(fA :> IntVal(5))))

PMany ==
    Plain((fA :> IntVal(1)) @@ (fE :> Plain(fN :> IntVal(5)))
          @@ (fL :> ListVal(<<Plain(fN :> IntVal(1)), Plain(fN :> IntVal(2))>>)))

\* an object whose l is a namedtuple of two objects
PTuple ==
    Plain((fA :> IntVal(1)) @@ (fE :> Plain(fN :> IntVal(5)))
          @@ (fL :> NamedTuple(Plain(fN :> IntVal(1)), Plain(fN :> IntVal(2)))))

FlatObjects == {OFull, OMin, ONoB, ONone, ORaises, ONamedTuple, NoneVal}

OuterObjects == {PGood, PNoN, PMany, PTuple, NoneVal}

ListsOver(S) == {ListVal(q) : q \in UNION {[1..n -> S] : n \in 0..MaxMany}}

FlatLists == ListsOver({OFull, OMin, ONoB}) \cup {NoneVal}

OuterLists == ListsOver({PGood, PNoN})

\* the data a caller assigns to an instance it already holds
NewData == {OFull, OMin, ListVal(<<>>), ListVal(<<OFull>>)}

\* the fields argument: None, or a list of names, known or not
FieldsGiven(names) == [given |-> TRUE, names |-> names]

FieldsNone == [given |-> FALSE, names |-> <<>>]

FlatFieldsArguments ==
    {FieldsNone, FieldsGiven(<<fB>>), FieldsGiven(<<fB, fA>>), FieldsGiven(<<fA, fUnknown>>)}

OuterFieldsArguments == {FieldsNone, FieldsGiven(<<fE>>), FieldsGiven(<<fB>>)}

\* the constructor calls of the callers: the arguments of Serializer.__init__
ConstructorCalls ==
    [cls : {"Flat"}, data : FlatObjects, fields : FlatFieldsArguments,
     many : {FALSE}, to_json : BOOLEAN]
    \cup [cls : {"Flat"}, data : FlatLists, fields : FlatFieldsArguments,
          many : {TRUE}, to_json : BOOLEAN]
    \cup [cls : {"Outer"}, data : OuterObjects, fields : OuterFieldsArguments,
          many : {FALSE}, to_json : BOOLEAN]
    \cup [cls : {"Outer"}, data : OuterLists, fields : OuterFieldsArguments,
          many : {TRUE}, to_json : {FALSE}]

(***************************************************************************)
(* The engine, one operation of a caller per step                          *)
(***************************************************************************)
EngInit ==
    /\ clsFields = CompiledClasses
    /\ deadGens = {}
    /\ inst = NoInstance
    /\ last = NoOperation
    /\ AccIdle
    /\ CompIdle
    /\ ThrIdle
    /\ GaIdle
    /\ FacIdle

\* the caller after the constructor call, whose outcome is r
Constructed(cls, fields, r) ==
    /\ inst' = IF r.ok THEN r.self ELSE inst
    /\ last' = [op |-> "init", ok |-> r.ok, val |-> NoneVal, exc |-> r.exc,
                calls |-> 0, recomputed |-> FALSE,
                req |-> [cls |-> cls, fields |-> fields]]

\* self = cls(data, fields, many, to_json)
Construct(cls, data, fields, many, to_json) ==
    /\ Constructed(cls, fields,
                   serializer_init(clsFields[cls], cls, data, fields, many, to_json))
    /\ UNCHANGED <<clsFields, deadGens>>
    /\ UNCHANGED <<accVars, compVars, thrVars, gaVars, facVars>>

\* the instance, the generators and the caller after self.serialize, whose outcome
\* is r
Serialized(r) ==
    /\ inst' = [inst EXCEPT !.stored = r.stored]
    /\ deadGens' = r.result.dead
    /\ last' = [op |-> "serialize", ok |-> r.result.ok, val |-> r.result.val,
                exc |-> r.result.exc, calls |-> r.result.calls,
                recomputed |-> r.recomputed, req |-> NoneVal]

\* self.serialize
Serialize ==
    /\ inst.live
    /\ Serialized(serialize(inst, deadGens))
    /\ UNCHANGED clsFields
    /\ UNCHANGED <<accVars, compVars, thrVars, gaVars, facVars>>

\* self.data = data: the caller changes the held data
SetData(data) ==
    /\ inst.live
    /\ inst.data # data
    /\ inst' = [inst EXCEPT !.data = data]
    /\ last' = [NoOperation EXCEPT !.op = "data"]
    /\ UNCHANGED <<clsFields, deadGens>>
    /\ UNCHANGED <<accVars, compVars, thrVars, gaVars, facVars>>

EngNext ==
    \/ \E c \in ConstructorCalls : Construct(c.cls, c.data, c.fields, c.many, c.to_json)
    \/ Serialize
    \/ \E data \in NewData : SetData(data)

Spec == EngInit /\ [][EngNext]_vars

(***************************************************************************)
(* Claims about the engine                                                 *)
(***************************************************************************)
\* the last operation evaluated the held data with the instance's fields, in single mode
EvaluatedSingle ==
    /\ last.op = "serialize"
    /\ last.recomputed
    /\ ~inst.many
    /\ ~inst.to_json

Aliases(value) == {value.items[i][1] : i \in 1..Len(value.items)}

ValueAt(value, key) == value.items[CHOOSE i \in 1..Len(value.items) : value.items[i][1] = key][2]

\* the attribute path of the field fails to resolve on the object, at some segment
Unresolved(field, obj) ==
    /\ field.getter.k \in {"attrgetter", "get_attr"}
    /\ resolve_strict(obj, field.getter.names).exc = "AttributeError"

ResolvesToNone(field, obj) ==
    /\ field.getter.k \in {"attrgetter", "get_attr"}
    /\ resolve_strict(obj, field.getter.names) = Ok(NoneVal)

IsOptional(field) == field.getter.k = "get_attr"

RaisesNothing(obj) == \A attr \in DOMAIN AttrsOf(obj) : AttrsOf(obj)[attr].k # "raises"

\* C2: with every generator still alive, a single evaluation of an object whose
\* attributes raise nothing fails with AttributeError when the path of one of its
\* non-optional fields does not resolve; otherwise it succeeds, the result has no
\* entry for the alias of an optional field whose path does not resolve (at its first
\* or at a later segment), and a path that resolves to None gives an entry of None
C2_MissingPathOmittedOrRaised ==
    (EvaluatedSingle /\ deadGens = {} /\ inst.cls = "Flat" /\ RaisesNothing(inst.data)) =>
        IF \E i \in 1..Len(inst.fields) :
               ~IsOptional(inst.fields[i]) /\ Unresolved(inst.fields[i], inst.data)
        THEN ~last.ok /\ last.exc = "AttributeError"
        ELSE /\ last.ok
             /\ \A i \in 1..Len(inst.fields) :
                    /\ (IsOptional(inst.fields[i]) /\ Unresolved(inst.fields[i], inst.data))
                           => inst.fields[i].alias \notin Aliases(last.val)
                    /\ ResolvesToNone(inst.fields[i], inst.data)
                           => /\ inst.fields[i].alias \in Aliases(last.val)
                              /\ ValueAt(last.val, inst.fields[i].alias) = NoneVal

\* the values that serialize takes for "not computed yet"
Falsy == {NoneVal, DictVal(<<>>), ListVal(<<>>)}

\* C4: an evaluation recomputes exactly when the stored result is None, an empty dict
\* or an empty list; otherwise it returns the stored result, runs no accessor and no
\* transform and leaves the stored result and the generators as they are, whatever
\* the held data is by then
C4_RecomputesIffStoredFalsy ==
    [][last'.op = "serialize" =>
          /\ last'.recomputed <=> inst.stored \in Falsy
          /\ inst.stored \in Falsy =>
                 /\ last'.ok = compute(inst, deadGens).ok
                 /\ last'.val = compute(inst, deadGens).val
                 /\ last'.calls = compute(inst, deadGens).calls
                 /\ last'.ok => inst'.stored = last'.val
          /\ inst.stored \notin Falsy =>
                 /\ last'.ok
                 /\ last'.val = inst.stored
                 /\ last'.calls = 0
                 /\ inst'.stored = inst.stored
                 /\ deadGens' = deadGens]_vars

\* a stored non-empty result was returned although the held data has changed and
\* would now give another result
C4_Witness ==
    /\ last.op = "serialize"
    /\ ~last.recomputed
    /\ last.calls = 0
    /\ last.val = inst.stored
    /\ compute(inst, deadGens).ok
    /\ compute(inst, deadGens).val # inst.stored

FieldNamesOf(fields) == {fields[i].name : i \in 1..Len(fields)}

Requested(req) == {req.fields.names[i] : i \in 1..Len(req.fields.names)}

\* fields is a subsequence of parsed_fields
RECURSIVE InOrderOf(_, _)
InOrderOf(fields, parsed_fields) ==
    \/ fields = <<>>
    \/ /\ parsed_fields # <<>>
       /\ \/ Head(fields) = Head(parsed_fields) /\ InOrderOf(Tail(fields), Tail(parsed_fields))
          \/ InOrderOf(fields, Tail(parsed_fields))

\* C6: a constructor call whose fields argument holds a name that is no field of the
\* schema fails with FieldError, runs no accessor or transform, and leaves the class's
\* compiled fields, the generators and the caller's instance as they were; any other
\* call succeeds with exactly the requested fields (all of them for fields=None), in
\* schema order, and nothing stored
C6_UnknownFieldsRejected ==
    [][last'.op = "init" =>
          /\ clsFields' = clsFields
          /\ deadGens' = deadGens
          /\ last'.calls = 0
          /\ IF /\ last'.req.fields.given
                /\ Requested(last'.req) \ FieldNamesOf(clsFields[last'.req.cls]) # {}
             THEN ~last'.ok /\ last'.exc = "FieldError" /\ inst' = inst
             ELSE /\ last'.ok
                  /\ inst'.live
                  /\ inst'.stored = NoneVal
                  /\ inst'.cls = last'.req.cls
                  /\ InOrderOf(inst'.fields, clsFields[last'.req.cls])
                  /\ FieldNamesOf(inst'.fields) =
                         (IF last'.req.fields.given THEN Requested(last'.req)
                          ELSE FieldNamesOf(clsFields[last'.req.cls]))]_vars

\* a call with an unknown name failed while the caller held an instance that had asked
\* for the field b alone and had evaluated exactly that field
C6_Witness ==
    /\ last.op = "init"
    /\ ~last.ok
    /\ last.req.fields.names = <<fA, fUnknown>>
    /\ inst.live
    /\ inst.cls = "Flat"
    /\ Len(inst.fields) = 1
    /\ inst.fields[1].name = fB
    /\ inst.stored = DictVal(<<<<StrVal(fB), IntVal(2)>>>>)

(***************************************************************************)
(* C7                                                                      *)
(***************************************************************************)
\* json.loads of a text: the value at position p and the position after it
RECURSIVE loads_value(_, _)
RECURSIVE loads_elements(_, _, _)
RECURSIVE loads_members(_, _, _)

loads_value(text, p) ==
    CASE text[p].t = "null" -> [val |-> NoneVal, next |-> p + 1]
      [] text[p].t = "number" -> [val |-> IntVal(text[p].v), next |-> p + 1]
      [] text[p].t = "string" ->
            [val |-> IF "doc" \in DOMAIN text[p] THEN DocOf(text[p].doc) ELSE StrVal(text[p].s),
             next |-> p + 1]
      [] text[p].t = "[" -> loads_elements(text, p + 1, <<>>)
      [] text[p].t = "{" -> loads_members(text, p + 1, <<>>)

loads_elements(text, p, out) ==
    IF text[p].t = "]" THEN [val |-> ListVal(out), next |-> p + 1]
    ELSE IF text[p].t = "," THEN loads_elements(text, p + 1, out)
    ELSE LET r == loads_value(text, p)
         IN  loads_elements(text, r.next, Append(out, r.val))

loads_members(text, p, out) ==
    IF text[p].t = "}" THEN [val |-> DictVal(out), next |-> p + 1]
    ELSE IF text[p].t = "," THEN loads_members(text, p + 1, out)
    ELSE LET r == loads_value(text, p + 2)
         IN  loads_members(text, r.next, setitem(out, StrVal(text[p].s), r.val))

loads(json) == loads_value(json.tokens, 1).val

\* the step encodes the held single object of the all-pass-through schema Flat as
\* JSON text
EncodesSingle ==
    /\ last'.op = "serialize"
    /\ last'.recomputed
    /\ inst.to_json
    /\ ~inst.many
    /\ inst.cls = "Flat"
    /\ inst.data.k = "object"

\* the JSON-mode outcome of the step is the single-mode outcome of the same fields on
\* the same object with the generators as they are before the step: both fail alike,
\* or the text parses to the single-mode result
JsonAgreesWithSingle ==
    LET single == apply_once(inst.fields, inst.data, deadGens)
    IN  /\ last'.ok = single.ok
        /\ last'.ok => loads(last'.val) = single.val
        /\ ~last'.ok => last'.exc = single.exc

\* C7: for the all-pass-through schema and any single object with JSON primitive
\* values, of whatever kind (tuple-like records included), the JSON text parses to the
\* single-mode result, with the same keys, values and omitted optional fields
C7_JsonRoundTripAnyObject == [][EncodesSingle => JsonAgreesWithSingle]_vars

(***************************************************************************)
(* C9                                                                      *)
(***************************************************************************)
\* the single evaluation of the i-th held object with the instance's fields, the
\* generators being as they are before the step
SingleOf(i) == apply_once(inst.fields, inst.data.elems[i], deadGens)

\* C9: a many-mode evaluation of a held sequence gives a list as long as the sequence,
\* whose i-th element is the single evaluation of the i-th object with the same fields;
\* it fails only when the single evaluation of one of the objects fails, with the
\* failure of the first such object
C9_ManyIsElementwiseSingle ==
    [][(last'.op = "serialize" /\ last'.recomputed /\ inst.many /\ ~inst.to_json
            /\ inst.data.k = "list") =>
          LET failing == {i \in 1..Len(inst.data.elems) : ~SingleOf(i).ok}
          IN  IF failing = {}
              THEN /\ last'.ok
                   /\ last'.val.k = "list"
                   /\ Len(last'.val.elems) = Len(inst.data.elems)
                   /\ \A i \in 1..Len(inst.data.elems) : last'.val.elems[i] = SingleOf(i).val
              ELSE /\ ~last'.ok
                   /\ last'.exc = SingleOf(CHOOSE i \in failing : \A j \in failing : i <= j).exc]_vars

\* two different objects were evaluated in many mode, in their order
C9_Witness ==
    /\ last.op = "serialize"
    /\ last.recomputed
    /\ last.ok
    /\ inst.many
    /\ ~inst.to_json
    /\ inst.data = ListVal(<<OMin, OFull>>)
    /\ Len(last.val.elems) = 2
    /\ last.val.elems[1] # last.val.elems[2]

(***************************************************************************)
(* C10                                                                     *)
(***************************************************************************)
\* C10: the first evaluation of a new instance has the outcome it has right after the
\* schema was compiled, when no generator of the class has finished, whatever was
\* evaluated before
C10_OutcomeIndependentOfHistory ==
    [][(last.op = "init" /\ last.ok /\ last'.op = "serialize") =>
          /\ last'.ok = compute(inst, {}).ok
          /\ last'.val = compute(inst, {}).val
          /\ last'.exc = compute(inst, {}).exc]_vars

(***************************************************************************)
(* Two threads, each with an instance of its own of the same schema class, *)
(* both in serialize() in single mode.  The generator of                   *)
(* apply_getters(self._fields) belongs to the call; the generators that    *)
(* _construct_fields made (get_attr of an optional field, apply_getters    *)
(* and apply_getters_many of a nested schema) belong to the class.  The    *)
(* interpreter may switch threads while the body of a generator runs, and  *)
(* send on a generator that is executing raises ValueError ("generator     *)
(* already executing") in the caller and leaves the generator as it is.    *)
(***************************************************************************)
\* the objects the threads evaluate: each evaluates without failure alone
ThreadObjects(cls) == IF cls = "Flat" THEN {OFull, OMin, ONone} ELSE {PGood, PMany}

\* getter = apply_getters(self._fields); getter(self.data) has reached the first field
Evaluating(self) ==
    [pc |-> "getter", self |-> self, i |-> 1, ser |-> <<>>, value |-> NoneVal,
     ok |-> TRUE, val |-> NoneVal, exc |-> ""]

ThrInit ==
    /\ clsFields = CompiledClasses
    /\ deadGens = {}
    /\ inst = NoInstance
    /\ last = NoOperation
    /\ AccIdle
    /\ CompIdle
    /\ running = {}
    /\ GaIdle
    /\ FacIdle
    /\ \E cls \in {"Flat", "Outer"} :
           thr \in [Threads ->
                        {Evaluating(serializer_init(clsFields[cls], cls, data, FieldsNone,
                                                    FALSE, FALSE).self) :
                             data \in ThreadObjects(cls)}]

FieldOf(t) == thr[t].self.fields[thr[t].i]

\* an exception leaves the generator of apply_getters(self._fields) and serialize()
Fails(t, exc) ==
    thr' = [thr EXCEPT ![t].pc = "failed", ![t].ok = FALSE, ![t].exc = leaving_generator(exc)]

\* ser[field_alias] = ...; the loop goes to the next field
Stores(t, value) ==
    thr' = [thr EXCEPT ![t].pc = "getter", ![t].i = @ + 1, ![t].value = NoneVal,
                       ![t].ser = setitem(@, FieldOf(t).alias, value)]

\* after value = getter(object_): continue on the marker, store the value, or go on
\* to callable_(value)
GotValue(t, value) ==
    IF value = has_no_attribute
    THEN thr' = [thr EXCEPT ![t].pc = "getter", ![t].i = @ + 1]
    ELSE IF FieldOf(t).callable_ = NoneVal
    THEN Stores(t, value)
    ELSE thr' = [thr EXCEPT ![t].pc = "callable", ![t].value = value]

\* the generators of the class that are called with send
IsGenerator(f) == f.k \in {"get_attr", "apply_getters", "apply_getters_many"}

\* gen.send(obj) is called: ValueError if the generator is executing, StopIteration
\* if it has finished, and otherwise its body starts to run
Send(t, gen, inside) ==
    IF gen \in running
    THEN Fails(t, "ValueError") /\ UNCHANGED <<running, deadGens>>
    ELSE IF gen \in deadGens
    THEN Fails(t, "StopIteration") /\ UNCHANGED <<running, deadGens>>
    ELSE /\ thr' = [thr EXCEPT ![t].pc = inside]
         /\ running' = running \cup {gen}
         /\ UNCHANGED deadGens

\* the thread after getter(object_) has returned or raised, the outcome being r
GetterReturned(t, r) ==
    /\ IF r.ok THEN GotValue(t, r.val) ELSE Fails(t, r.exc)
    /\ deadGens' = r.dead

\* the thread after callable_(value) has returned or raised, the outcome being r
CallableReturned(t, r) ==
    /\ IF r.ok THEN Stores(t, r.val) ELSE Fails(t, r.exc)
    /\ deadGens' = r.dead

\* value = getter(object_): an attrgetter or a bound method runs; the send of a
\* get_attr generator enters the generator
CallGetter(t) ==
    /\ thr[t].pc = "getter"
    /\ thr[t].i <= Len(thr[t].self.fields)
    /\ IF IsGenerator(FieldOf(t).getter)
       THEN Send(t, FieldOf(t).getter.gen, "in_getter")
       ELSE /\ GetterReturned(t, call_getter(FieldOf(t).getter, thr[t].self.data,
                                              deadGens))
            /\ UNCHANGED running
    /\ UNCHANGED <<clsFields, inst, last, accVars, compVars, gaVars, facVars>>

\* the body of get_attr reaches its yield (or raises, which finishes the generator)
GetterYields(t) ==
    /\ thr[t].pc = "in_getter"
    /\ GetterReturned(t, call_getter(FieldOf(t).getter, thr[t].self.data, deadGens))
    /\ running' = running \ {FieldOf(t).getter.gen}
    /\ UNCHANGED <<clsFields, inst, last, accVars, compVars, gaVars, facVars>>

\* ser[field_alias] = callable_(value): a function runs; the send of the generator of
\* a nested schema enters the generator
CallCallable(t) ==
    /\ thr[t].pc = "callable"
    /\ IF IsGenerator(FieldOf(t).callable_)
       THEN Send(t, FieldOf(t).callable_.gen, "in_callable")
       ELSE /\ CallableReturned(t, call_callable(FieldOf(t).callable_, thr[t].value,
                                                  deadGens))
            /\ UNCHANGED running
    /\ UNCHANGED <<clsFields, inst, last, accVars, compVars, gaVars, facVars>>

\* the body of the nested apply_getters or apply_getters_many reaches its yield (or
\* raises, which finishes the generator)
CallableYields(t) ==
    /\ thr[t].pc = "in_callable"
    /\ CallableReturned(t, call_callable(FieldOf(t).callable_, thr[t].value, deadGens))
    /\ running' = running \ {FieldOf(t).callable_.gen}
    /\ UNCHANGED <<clsFields, inst, last, accVars, compVars, gaVars, facVars>>

\* object_ = yield ser: self._serialized_data = getter(self.data) stores the dict on
\* the instance and serialize() returns it
Returns(t) ==
    /\ thr[t].pc = "getter"
    /\ thr[t].i > Len(thr[t].self.fields)
    /\ thr' = [thr EXCEPT ![t].pc = "done", ![t].val = DictVal(thr[t].ser),
                          ![t].self.stored = DictVal(thr[t].ser)]
    /\ UNCHANGED <<running, deadGens, clsFields, inst, last, accVars, compVars, gaVars,
                   facVars>>

ThrNext ==
    \E t \in Threads :
        \/ CallGetter(t)
        \/ GetterYields(t)
        \/ CallCallable(t)
        \/ CallableYields(t)
        \/ Returns(t)

SpecThreads == ThrInit /\ [][ThrNext]_vars

\* what the evaluation of the thread's instance gives when nothing else runs
Alone(t) == apply_once(thr[t].self.fields, thr[t].self.data, {})

\* C5: each of two threads that evaluate instances of the same schema class ends with
\* the result that its instance gives when it is evaluated alone, and none fails
\* because the other thread is using the compiled fields of the class
C5_ConcurrentEvaluationsAgree ==
    \A t \in Threads :
        /\ thr[t].pc = "failed" => (~Alone(t).ok /\ thr[t].exc = Alone(t).exc)
        /\ thr[t].pc = "done" => (Alone(t).ok /\ thr[t].val = Alone(t).val)

(***************************************************************************)
(* The generator of get_attr for one optional field, one getattr_ per      *)
(* step: a caller sends it an object, the body walks the names of the path *)
(* and yields what the walk has reached.                                   *)
(***************************************************************************)
\* c___instance and c__d__a: an underscored second segment, and three segments
fCInstance == <<"c", "_", "_", "_", "i", "n", "s", "t", "a", "n", "c", "e">>

fCDA == <<"c", "_", "_", "d", "_", "_", "a">>

\* the optional fields whose generators are walked
WalkedFields == {fA, fB, fCD, fCDoc, fCInstance, fCDA}

\* objects whose c has a d with an a, and whose c has no d
ODeep == Plain(fC :> Plain(fD :> Plain(fA :> IntVal(4))))

OShallow == Plain((fA :> IntVal(1)) @@ (fC :> Plain(fA :> IntVal(5))))

\* the objects that are sent
WalkedObjects == {OFull, OMin, ONoB, ONone, ORaises, ONamedTuple, ODeep, OShallow}

\* get_attr(getter_name) up to the first yield: the generator is primed
Primed(field_name) ==
    [pc |-> "primed", names |-> get_attr(getter_name(field_name, FALSE),
                                         <<"Flat", field_name, "getter">>).names,
     i |-> 1, obj |-> NoneVal, missing |-> FALSE, after |-> 0, val |-> NoneVal, exc |-> ""]

GaInit ==
    /\ ga \in {Primed(field_name) : field_name \in WalkedFields}
    /\ AccIdle
    /\ CompIdle
    /\ EngIdle
    /\ ThrIdle
    /\ FacIdle

\* send(obj): the body goes on after its yield with obj; the send on a generator
\* that an exception has finished raises StopIteration and looks nothing up
GaSend(obj) ==
    /\ ga.pc \in {"primed", "yielded", "finished"}
    /\ IF ga.pc = "finished"
       THEN ga' = [ga EXCEPT !.exc = "StopIteration"]
       ELSE ga' = [ga EXCEPT !.pc = "walk", !.i = 1, !.obj = obj, !.missing = FALSE,
                             !.after = 0, !.val = NoneVal]
    /\ UNCHANGED <<accVars, compVars, engVars, thrVars, facVars>>

\* the generator after obj = getattr_(obj, attr, has_no_attribute), whose outcome is r:
\* missing says that a lookup has given the default, after counts the lookups made
\* since; an exception finishes the generator
Looked(r, failed) ==
    IF r.ok
    THEN ga' = [ga EXCEPT !.obj = r.val, !.i = @ + 1, !.missing = @ \/ failed,
                          !.after = IF ga.missing THEN @ + 1 ELSE @]
    ELSE ga' = [ga EXCEPT !.pc = "finished", !.exc = r.exc]

\* obj = getattr_(obj, attr, has_no_attribute) for the next name of the path
GaGetattr ==
    /\ ga.pc = "walk"
    /\ ga.i <= Len(ga.names)
    /\ Looked(getattr_default(ga.obj, ga.names[ga.i], has_no_attribute),
              getattr(ga.obj, ga.names[ga.i]).exc = "AttributeError")
    /\ UNCHANGED <<accVars, compVars, engVars, thrVars, facVars>>

\* obj = yield obj: send returns what the walk has reached
GaYield ==
    /\ ga.pc = "walk"
    /\ ga.i > Len(ga.names)
    /\ ga' = [ga EXCEPT !.pc = "yielded", !.val = ga.obj]
    /\ UNCHANGED <<accVars, compVars, engVars, thrVars, facVars>>

GaNext ==
    \/ \E obj \in WalkedObjects : GaSend(obj)
    \/ GaGetattr
    \/ GaYield

SpecGetAttr == GaInit /\ [][GaNext]_vars

\* C11: in the generator of a path of two or more names, no name is looked up once a
\* name has failed to resolve, and the send then returns the marker itself
C11_WalkStopsAtMissingSegment ==
    (ga.pc \in {"walk", "yielded", "finished"} /\ Len(ga.names) >= 2) =>
        /\ ga.after = 0
        /\ (ga.pc = "yielded" /\ ga.missing) => ga.val = has_no_attribute

(***************************************************************************)
(* make_serializer.  The caller's fields mapping is a sequence of          *)
(* <<name, specifier>>, its namespace mapping a function from names (the   *)
(* keys of the model are all str); both are the caller's own objects, so   *)
(* what make_serializer stores in them is there at the caller's next call. *)
(***************************************************************************)
nAnnotations == <<"_", "_", "a", "n", "n", "o", "t", "a", "t", "i", "o", "n", "s", "_", "_">>

Letters ==
    {"a", "b", "c", "d", "e", "f", "g", "h", "i", "j", "k", "l", "m", "n", "o", "p", "q", "r",
     "s", "t", "u", "v", "w", "x", "y", "z", "A", "B", "C", "D", "E", "F", "G", "H", "I", "J",
     "K", "L", "M", "N", "O", "P", "Q", "R", "S", "T", "U", "V", "W", "X", "Y", "Z"}

Digits == {"0", "1", "2", "3", "4", "5", "6", "7", "8", "9"}

\* str.isidentifier() for a name of ASCII characters
isidentifier(name) ==
    /\ name # <<>>
    /\ name[1] \in Letters \cup {"_"}
    /\ \A i \in 1..Len(name) : name[i] \in Letters \cup Digits \cup {"_"}

\* keyword.kwlist
kwlist ==
    {<<"F", "a", "l", "s", "e">>, <<"N", "o", "n", "e">>, <<"T", "r", "u", "e">>,
     <<"a", "n", "d">>, <<"a", "s">>, <<"a", "s", "s", "e", "r", "t">>,
     <<"a", "s", "y", "n", "c">>, <<"a", "w", "a", "i", "t">>,
     <<"b", "r", "e", "a", "k">>, <<"c", "l", "a", "s", "s">>,
     <<"c", "o", "n", "t", "i", "n", "u", "e">>, <<"d", "e", "f">>, <<"d", "e", "l">>,
     <<"e", "l", "i", "f">>, <<"e", "l", "s", "e">>, <<"e", "x", "c", "e", "p", "t">>,
     <<"f", "i", "n", "a", "l", "l", "y">>, <<"f", "o", "r">>, <<"f", "r", "o", "m">>,
     <<"g", "l", "o", "b", "a", "l">>, <<"i", "f">>, <<"i", "m", "p", "o", "r", "t">>,
     <<"i", "n">>, <<"i", "s">>, <<"l", "a", "m", "b", "d", "a">>,
     <<"n", "o", "n", "l", "o", "c", "a", "l">>, <<"n", "o", "t">>, <<"o", "r">>,
     <<"p", "a", "s", "s">>, <<"r", "a", "i", "s", "e">>,
     <<"r", "e", "t", "u", "r", "n">>, <<"t", "r", "y">>, <<"w", "h", "i", "l", "e">>,
     <<"w", "i", "t", "h">>, <<"y", "i", "e", "l", "d">>}

\* keyword.iskeyword(name)
iskeyword(name) == name \in kwlist

\* the first two raises of make_serializer, for one name: FieldIdentifierError for a
\* name that is no identifier or is a keyword
bad_identifier(field_name) == ~isidentifier(field_name) \/ iskeyword(field_name)

\* **serializer_settings: no keyword argument, or optional and disable_accessor
NoSettings == [given |-> FALSE, optional |-> {}, disable_accessor |-> {}]

SettingsGiven(optional, disable_accessor) ==
    [given |-> TRUE, optional |-> optional, disable_accessor |-> disable_accessor]

\* if serializer_settings: namespace.update(Settings=new_class("Settings", ...))
update_settings(namespace, serializer_settings) ==
    IF serializer_settings.given
    THEN Settings(serializer_settings.optional, serializer_settings.disable_accessor)
             @@ namespace
    ELSE namespace

\* the class object, and issubclass(base, Serializer) for the classes of the model
ObjectClass == [name |-> "object", ann |-> <<>>, ns |-> EmptyNs]

issubclass_Serializer(base) == base.name # "object"

\* namespace[ANNOTATIONS] = fields
set_annotations(namespace, fields) ==
    (nAnnotations :> [k |-> "annotations", items |-> fields]) @@ namespace

\* new_class(name=name, bases=bases, exec_body=lambda ns: ns.update(namespace)): the
\* class is defined and __init_subclass__ compiles its fields; namespace is what the
\* caller's mapping holds by then
new_class(name, bases, fields, namespace, compiled) ==
    [ok |-> compiled.ok, exc |-> compiled.exc, fields |-> compiled.fields,
     namespace |-> namespace]

\* make_serializer after the Settings were added to the namespace
checked_and_built(name, bases, fields, namespace) ==
    IF \/ \E i \in 1..Len(fields) : bad_identifier(fields[i][1])
       \/ \E key \in DOMAIN namespace : bad_identifier(key)
    THEN [ok |-> FALSE, exc |-> "FieldIdentifierError", fields |-> <<>>,
          namespace |-> namespace]
    ELSE IF ~\E i \in 1..Len(bases) : issubclass_Serializer(bases[i])
    THEN [ok |-> FALSE, exc |-> "SerializerError", fields |-> <<>>, namespace |-> namespace]
    ELSE new_class(name, bases, fields, set_annotations(namespace, fields),
                   init_subclass(name,
                                 <<[name |-> name, ann |-> fields,
                                    ns |-> set_annotations(namespace, fields)]>>
                                     \o bases))

\* make_serializer(name, bases, fields, namespace, **serializer_settings): the compiled
\* fields of the new class or the exception, and the namespace mapping afterwards;
\* bases is None or a tuple of classes
make_serializer(name, bases, fields, namespace, serializer_settings) ==
    checked_and_built(name, IF bases = NoneVal THEN <<SerializerClass>> ELSE bases.items,
                      fields, update_settings(namespace, serializer_settings))

\* the mappings that the caller writes
WrittenFields ==
    {<<<<fA, Ellipsis>>>>, <<<<fA, Ellipsis>>, <<fB, Ellipsis>>>>,
     <<<<fA, Ellipsis>>, <<<<"i", "f">>, Ellipsis>>>>}

WrittenNamespaces == {EmptyNs, fA :> StrVal(<<"x">>), <<"1", "a">> :> IntVal(1)}

\* the bases and the settings that the caller passes
TupleOf(classes) == [k |-> "tuple", items |-> classes]

BasesArguments == {NoneVal, TupleOf(<<SerializerClass>>), TupleOf(<<ObjectClass>>)}

SettingsArguments ==
    {NoSettings, SettingsGiven({fA}, {}), SettingsGiven({fB}, {}), SettingsGiven({}, {fA})}

FacInit ==
    /\ callerFields \in WrittenFields
    /\ callerNamespace \in WrittenNamespaces
    /\ callerWrote = [fields |-> callerFields, namespace |-> callerNamespace]
    /\ made = [op |-> "none"]
    /\ AccIdle
    /\ CompIdle
    /\ EngIdle
    /\ ThrIdle
    /\ GaIdle

\* the caller after the call, whose outcome is r: its two mappings are the objects
\* that it passed
Made(bases, serializer_settings, r) ==
    /\ callerNamespace' = r.namespace
    /\ made' = [op |-> "make", ok |-> r.ok, exc |-> r.exc, fields |-> r.fields,
                bases |-> bases, settings |-> serializer_settings]
    /\ UNCHANGED <<callerFields, callerWrote>>

\* make_serializer("Made", bases, fields, namespace, **serializer_settings) with the
\* caller's two mappings
MakeSerializer(bases, serializer_settings) ==
    /\ Made(bases, serializer_settings,
            make_serializer("Made", bases, callerFields, callerNamespace, serializer_settings))
    /\ UNCHANGED <<accVars, compVars, engVars, thrVars, gaVars>>

FacNext ==
    \E bases \in BasesArguments, serializer_settings \in SettingsArguments :
        MakeSerializer(bases, serializer_settings)

SpecFactory == FacInit /\ [][FacNext]_vars

\* what the call gives with the mappings as the caller wrote them
OwnArguments(bases, serializer_settings) ==
    make_serializer("Made", bases, callerWrote.fields, callerWrote.namespace,
                    serializer_settings)

\* C12: a call of make_serializer, whether it returns or raises, leaves the caller's
\* fields and namespace mappings as they were, and what it builds or raises is what
\* the call's own arguments give, whatever the earlier calls with the same namespace
\* mapping passed as settings
C12_FactoryLeavesArguments ==
    [][made'.op = "make" =>
          /\ callerFields' = callerFields
          /\ callerNamespace' = callerNamespace
          /\ made'.ok = OwnArguments(made'.bases, made'.settings).ok
          /\ made'.exc = OwnArguments(made'.bases, made'.settings).exc
          /\ made'.fields = OwnArguments(made'.bases, made'.settings).fields]_vars

(***************************************************************************)
(* The accessor compiler, one call of construct_accessor per step          *)
(***************************************************************************)
AccInit ==
    /\ caName \in FieldNames
    /\ caDisabled \in BOOLEAN
    /\ caPc = "start"
    /\ caAttr = <<>>
    /\ caAcc = <<>>
    /\ caPath = <<>>
    /\ caCalls = 0
    /\ CompIdle
    /\ EngIdle
    /\ ThrIdle
    /\ GaIdle
    /\ FacIdle

\* the field is listed in disable_accessor: the path is the field name
CaDisabled ==
    /\ caPc = "start"
    /\ caDisabled
    /\ caPath' = caName
    /\ caPc' = "done"
    /\ UNCHANGED <<caName, caDisabled, caAttr, caAcc, caCalls>>
    /\ UNCHANGED <<compVars, engVars, thrVars, gaVars, facVars>>

\* construct_accessor(field_name) is entered
CaEnter ==
    /\ caPc = "start"
    /\ ~caDisabled
    /\ caAttr' = caName
    /\ caAcc' = <<>>
    /\ caCalls' = 1
    /\ caPc' = "call"
    /\ UNCHANGED <<caName, caDisabled, caPath>>
    /\ UNCHANGED <<compVars, engVars, thrVars, gaVars, facVars>>

\* the running call makes the recursive call
CaRecurse ==
    /\ caPc = "call"
    /\ LET c == construct_accessor_call(caAttr, caAcc)
       IN  /\ c.recurse
           /\ caAttr' = c.attribute
           /\ caAcc' = c.accessor
    /\ caCalls' = caCalls + 1
    /\ UNCHANGED <<caName, caDisabled, caPc, caPath>>
    /\ UNCHANGED <<compVars, engVars, thrVars, gaVars, facVars>>

\* the running call returns, and with it every caller
CaReturn ==
    /\ caPc = "call"
    /\ LET c == construct_accessor_call(caAttr, caAcc)
       IN  /\ ~c.recurse
           /\ caPath' = c.accessor
    /\ caPc' = "done"
    /\ UNCHANGED <<caName, caDisabled, caAttr, caAcc, caCalls>>
    /\ UNCHANGED <<compVars, engVars, thrVars, gaVars, facVars>>

AccNext == CaDisabled \/ CaEnter \/ CaRecurse \/ CaReturn

SpecAccessor == AccInit /\ [][AccNext]_vars

(***************************************************************************)
(* Schema compilation: a class Derived(Base, Mixin) with Base(Serializer), *)
(* whose mro is Derived, Base, Serializer, Mixin, is defined and           *)
(* __init_subclass__ compiles it.                                          *)
(***************************************************************************)
\* the field names of the class bodies
CompileNames == {fA, fB, nSerialize}

\* the sequences over S of length at most n without repetition
DistinctSeqs(S, n) ==
    {q \in UNION {[1..k -> S] : k \in 0..n} :
        \A i, j \in 1..Len(q) : i # j => q[i] # q[j]}

\* the annotations a class body may hold: its fields are pass-through (...) or all
\* use a callable of the class's own
AnnChoices(callable_, n) ==
    {[i \in 1..Len(ks) |-> <<ks[i], sp>>] :
        ks \in DistinctSeqs(CompileNames, n), sp \in {Ellipsis, Func(callable_)}}

\* the class bodies: an alias for a (a = "x"), a method named b
DerivedChoices ==
    [name : {"Derived"}, ann : AnnChoices("of_derived", MaxAnn),
     ns : {EmptyNs, fA :> StrVal(<<"x">>)}]

BaseBodies ==
    [name : {"Base"}, ann : AnnChoices("of_base", MaxAnn),
     ns : {EmptyNs, fA :> StrVal(<<"y">>), fB :> Func("b")}]

\* class Base(Serializer) after its definition: __init_subclass__ has compiled it
BaseChoices ==
    {set_fields(b, init_subclass(b.name, <<b, SerializerClass>>)) : b \in BaseBodies}

MixinChoices ==
    [name : {"Mixin"}, ann : AnnChoices("of_mixin", MaxMixinAnn),
     ns : {EmptyNs, fB :> Func("b")}]

CompInit ==
    /\ \E d \in DerivedChoices, b \in BaseChoices, m \in MixinChoices :
           mro = <<d, b, SerializerClass, m>>
    /\ compPc = "defined"
    /\ merged = <<>>
    /\ parsed = [ok |-> TRUE, exc |-> "", fields |-> <<>>]
    /\ AccIdle
    /\ EngIdle
    /\ ThrIdle
    /\ GaIdle
    /\ FacIdle

\* Serializer.__init_subclass__ for the class whose mro is mro
InitSubclass ==
    /\ compPc = "defined"
    /\ merged' = AnnotationsChainMap_items(_merge_bases(mro)[1])
    /\ parsed' = init_subclass(mro[1].name, mro)
    /\ compPc' = "compiled"
    /\ mro' = [mro EXCEPT ![1] = set_fields(@, parsed')]
    /\ UNCHANGED <<accVars, engVars, thrVars, gaVars, facVars>>

CompNext == InitSubclass

SpecCompile == CompInit /\ [][CompNext]_vars

(***************************************************************************)
(* C1                                                                      *)
(***************************************************************************)
\* the classes of the mro that declare the name, and the most derived of them
Declaring(name) == {i \in 1..Len(mro) : \E p \in 1..Len(mro[i].ann) : mro[i].ann[p][1] = name}

MostDerived(name) == CHOOSE i \in Declaring(name) : \A j \in Declaring(name) : i <= j

PositionIn(i, name) == CHOOSE p \in 1..Len(mro[i].ann) : mro[i].ann[p][1] = name

\* name n first appears before name m when the declarations are walked in mro order
AppearsBefore(n, m) ==
    \/ MostDerived(n) < MostDerived(m)
    \/ /\ MostDerived(n) = MostDerived(m)
       /\ PositionIn(MostDerived(n), n) < PositionIn(MostDerived(n), m)

DeclaredNames ==
    UNION {{mro[i].ann[p][1] : p \in 1..Len(mro[i].ann)} : i \in 1..Len(mro)}

\* C1: the compiled fields are the declared names, each once, in the order of first
\* appearance walking the mro from the most derived class, and the transform of a
\* name is the one its most derived declaring class gives it
C1_MergedFieldOrder ==
    compPc = "compiled" =>
        /\ parsed.ok
        /\ Len(merged) = Len(parsed.fields)
        /\ {parsed.fields[i].name : i \in 1..Len(parsed.fields)} = DeclaredNames
        /\ \A i, j \in 1..Len(parsed.fields) :
               i < j => /\ parsed.fields[i].name # parsed.fields[j].name
                        /\ AppearsBefore(parsed.fields[i].name, parsed.fields[j].name)
        /\ \A i \in 1..Len(parsed.fields) :
               LET name == parsed.fields[i].name
                   declared == mro[MostDerived(name)].ann[PositionIn(MostDerived(name), name)][2]
               IN  /\ merged[i] = <<name, declared>>
                   /\ parsed.fields[i].callable_ =
                          (IF declared = Ellipsis THEN NoneVal ELSE declared)

\* Derived and Base both declare a, with different transforms, Base declares it first
\* in its body, and Derived declares another name before it
C1_Witness ==
    /\ compPc = "compiled"
    /\ Len(parsed.fields) = 3
    /\ Declaring(fA) = {1, 2}
    /\ mro[1].ann[2][1] = fA
    /\ mro[2].ann[1][1] = fA
    /\ mro[1].ann[2][2] = Func("of_derived")
    /\ mro[2].ann[1][2] = Ellipsis
    /\ parsed.fields[2].callable_ = Func("of_derived")

(***************************************************************************)
(* C3                                                                      *)
(***************************************************************************)
\* the kinds of value that are transform specifiers or members of a class, not aliases
NotAnAlias == {"function", "property", "class", "ellipsis", "instance", "type"}

\* C3: the alias of a compiled field is the value the merged namespace binds to the
\* field's name only if there is one and it is not of a transform-specifier type; a
\* field named like a method or another member keeps its own name as alias
C3_AliasIsNameUnlessStringBound ==
    compPc = "compiled" =>
        \A i \in 1..Len(parsed.fields) :
            LET name == parsed.fields[i].name
                bound == ChainMap_get(_merge_bases(mro)[2], name, NoneVal)
            IN  parsed.fields[i].alias =
                    (IF bound # NoneVal /\ bound.k \notin NotAnAlias
                     THEN bound ELSE StrVal(name))

(***************************************************************************)
(* C8                                                                      *)
(***************************************************************************)
\* the rule of the specification, section 4.1, written without an accumulator
SpecValid(seg) == Len(seg) > 0 /\ {i \in 1..Len(seg) : seg[i] = "_"} # 1..Len(seg)

SpecHasDelimiter(name) == \E i \in 1..(Len(name) - 1) : SubSeq(name, i, i + 1) = Dunder

SpecSplitAt(name) ==
    CHOOSE i \in 1..(Len(name) - 1) :
        /\ SubSeq(name, i, i + 1) = Dunder
        /\ \A j \in 1..(i - 1) : SubSeq(name, j, j + 1) # Dunder

RECURSIVE SpecPath(_)
SpecPath(name) ==
    IF ~SpecHasDelimiter(name)
    THEN name
    ELSE LET i == SpecSplitAt(name)
             before == SubSeq(name, 1, i - 1)
             after == SubSeq(name, i + 2, Len(name))
         IN  IF SpecValid(before) /\ SpecValid(after)
             THEN before \o Dot \o SpecPath(after)
             ELSE before \o Dunder \o (IF SpecValid(after) THEN SpecPath(after) ELSE after)

\* C8: the path compiled for a field is the result of the specification's recursive
\* rule on "__" ("a__b__c" gives "a.b.c", "_a___c" gives "_a._c"); every call of the
\* recursion works on a name at least two characters shorter than its caller's, so it
\* terminates; a name listed in disable_accessor compiles to itself, with no "."
C8_PathFollowsRule ==
    /\ caPc = "call" => Len(caAttr) + 2 * (caCalls - 1) <= Len(caName)
    /\ caPc = "done" =>
        /\ caPath = getter_name(caName, caDisabled)
        /\ ~caDisabled => caPath = SpecPath(caName)
        /\ caDisabled => caPath = caName /\ \A i \in 1..Len(caPath) : caPath[i] # "."
        /\ (caName = ExampleABC /\ ~caDisabled) => caPath = <<"a", ".", "b", ".", "c">>
        /\ (caName = ExampleACPrivate /\ ~caDisabled) => caPath = <<"_", "a", ".", "_", "c">>

\* a name with two delimiters was compiled by three calls into a path with two dots
C8_Witness ==
    /\ caPc = "done"
    /\ caName = ExampleABC
    /\ ~caDisabled
    /\ caCalls = 3
    /\ caPath = <<"a", ".", "b", ".", "c">>

====
